---- MODULE Spec2Model ----
(***************************************************************************)
(* Two tutorial notebooks.                                                 *)
(*                                                                         *)
(*  Workflow 1 (basic_sagemaker_processing.ipynb): stage a CSV, run the    *)
(*  partitioning script preprocessing.py inside a processing job, extract  *)
(*  the job name from the captured output, verify the three outputs.       *)
(*                                                                         *)
(*  Workflow 2 (tensorflow_BYOM_iris.ipynb): download, train, export,      *)
(*  deploy, validate, local cleanup, endpoint teardown.                    *)
(*                                                                         *)
(* Row order inside a data frame is kept (ascending position); the random  *)
(* permutation train_test_split applies inside each part is not modelled:  *)
(* which rows land in which part is a free choice, their order is not.     *)
(***************************************************************************)
EXTENDS Integers, Sequences, FiniteSets, TLC

VARIABLES
    \* ---- workflow 1, notebook process
    nb_pc,        \* next cell of the notebook, "done" or "halted"
    nb_err,       \* the exception that halted the notebook, or NoErr
    census,       \* local file census-income.csv
    dataset,      \* local file dataset.csv
    captured,     \* text captured by %%capture output (sequence of characters)
    job_name,     \* the variable job_name (sequence of characters), or Unset
    s3out,        \* objects under <job>/output/output-<i>/ of the default bucket
    vi,           \* position in the verification loop
    printed,      \* URIs printed by the verification loop
    \* ---- workflow 1, preprocessing.py inside the job's container
    script_pc,    \* next statement of the script
    step,         \* position inside the current try block
    script_err,   \* the uncaught exception of the script, or NoErr
    input,        \* /opt/ml/processing/input/dataset.csv
    df, train, validation, test,
    dirs,         \* directories under /opt/ml/processing/output that exist
    files,        \* files inside each output directory
    stdout,       \* lines printed by the script
    \* ---- workflow 2, notebook process
    w2_pc,        \* next cell of the notebook, "done" or "halted"
    w2_err,       \* the exception that halted the notebook, or NoErr
    prefix_objs,  \* file names under the public iris prefix
    wd,           \* names present in the working directory
    cleanup_i,    \* next statement of the local cleanup cell
    cleanup_runs, \* how many times the cleanup cell was started
    endpoint      \* "none", "InService" or "deleted"

w1_nb_vars == <<nb_pc, nb_err, census, dataset, captured, job_name, s3out, vi, printed>>
script_vars == <<script_pc, step, script_err, input, df, train, validation, test,
                 dirs, files, stdout>>
w2_vars == <<w2_pc, w2_err, prefix_objs, wd, cleanup_i, cleanup_runs, endpoint>>
vars == <<w1_nb_vars, script_vars, w2_vars>>

----------------------------------------------------------------------------
(* Bounds *)

\* rows of the input in the specification of the two splits
MaxRows == 11
\* rows of the downloaded file in the specification of the whole workflow
MaxJobRows == 4
\* characters of the captured job output
MaxTextLen == 4
\* times the local cleanup cell is started in one session
MaxCleanupRuns == 2

----------------------------------------------------------------------------
(* Values *)

NoErr == [at |-> "none", exc |-> "none"]
Err(where, e) == [at |-> where, exc |-> e]

NoFile == [exists |-> FALSE, header |-> <<>>, rows |-> <<>>]
NoFrame == [columns |-> <<>>, index |-> <<>>, data |-> <<>>]
Unset == <<"unset">>

Last(s) == s[Len(s)]

----------------------------------------------------------------------------
(* pandas: read_csv with default arguments, DataFrame.to_csv with default  *)
(* arguments (index=True, header=True).                                    *)

\* the name read_csv gives a column whose header cell is empty
Unnamed(k) == CASE k = 0 -> "Unnamed: 0"
                [] k = 1 -> "Unnamed: 1"
                [] k = 2 -> "Unnamed: 2"
                [] OTHER -> "Unnamed: 3"

read_csv(f) ==
    [columns |-> [k \in 1..Len(f.header) |->
                     IF f.header[k] = "" THEN Unnamed(k - 1) ELSE f.header[k]],
     index   |-> [i \in 1..Len(f.rows) |-> i - 1],
     data    |-> f.rows]

to_csv(frame) ==
    [exists |-> TRUE,
     header |-> <<"">> \o frame.columns,
     rows   |-> [i \in 1..Len(frame.data) |-> <<frame.index[i]>> \o frame.data[i]]]

\* the downloaded census-income.csv: a header row and n data rows
ColumnNames == <<"age", "income">>
CensusFile(n) ==
    [exists |-> TRUE,
     header |-> ColumnNames,
     rows   |-> [r \in 1..n |-> [k \in 1..Len(ColumnNames) |-> 10 * r + k]]]

\* dataset.csv as the download cell stages it
StagedFile(f) == to_csv(read_csv(f))

----------------------------------------------------------------------------
(* sklearn.model_selection.train_test_split(frame, test_size=0.2)          *)

test_size_03 == [num |-> 3, den |-> 10]
test_size == [num |-> 1, den |-> 5]

CeilDiv(a, b) == (a + b - 1) \div b

\* n_test = ceil(test_size * n_samples), n_train = n_samples - n_test
NTest(n) == CeilDiv(n * test_size.num, test_size.den)
NTrain(n) == n - NTest(n)

\* train_test_split raises ValueError when the train part would be empty
SplitRaises(frame) == NTrain(Len(frame.index)) <= 0

RECURSIVE PickSeq(_, _, _)
PickSeq(s, P, i) ==
    IF i > Len(s) THEN <<>>
    ELSE (IF i \in P THEN <<s[i]>> ELSE <<>>) \o PickSeq(s, P, i + 1)

\* the rows of frame at the positions P
Take(frame, P) ==
    [columns |-> frame.columns,
     index   |-> PickSeq(frame.index, P, 1),
     data    |-> PickSeq(frame.data, P, 1)]

\* the sets of positions a split of frame may send to the test part
TestChoices(frame) ==
    {T \in SUBSET (1..Len(frame.index)) : Cardinality(T) = NTest(Len(frame.index))}

Rest(frame, T) == (1..Len(frame.index)) \ T

IndexSet(frame) == {frame.index[i] : i \in 1..Len(frame.index)}

----------------------------------------------------------------------------
(* preprocessing.py, run inside the container of the processing job        *)

MakedirsTargets == <<"train", "validation", "test">>

WriteNames == <<"train.csv", "validation.csv", "test.csv">>
WriteDirs == <<"train", "validation", "test">>

\* the frame the k-th to_csv statement writes
WriteFrame(k) == CASE k = 1 -> train
                   [] k = 2 -> validation
                   [] OTHER -> test

Marker == "Completed running the processing job"

\* the frame handed to the second train_test_split
SecondSplitInput_df == df
SecondSplitInput == train

\* where control goes after each except block (both end in pass)
AfterMakedirsFailure == "to_csv"
AfterWriteFailure_raise == "raised"
AfterWriteFailure == "completed"

\* df = pd.read_csv(input_data_path); print("Shape of data is:", df.shape)
ReadCsv ==
    /\ script_pc = "read_csv"
    /\ \/ /\ input.exists
          /\ df' = read_csv(input)
          /\ stdout' = Append(stdout, "Shape of data is:")
          /\ script_pc' = "split1"
          /\ UNCHANGED script_err
       \/ /\ ~input.exists
          /\ script_err' = Err("read_csv", "FileNotFoundError")
          /\ script_pc' = "raised"
          /\ UNCHANGED <<df, stdout>>
    /\ UNCHANGED <<step, input, train, validation, test, dirs, files>>
    /\ UNCHANGED <<w1_nb_vars, w2_vars>>

\* train, test = train_test_split(df, test_size=0.2)
Split1 ==
    /\ script_pc = "split1"
    /\ \/ /\ SplitRaises(df)
          /\ script_err' = Err("split1", "ValueError")
          /\ script_pc' = "raised"
          /\ UNCHANGED <<train, test>>
       \/ /\ ~SplitRaises(df)
          /\ \E T \in TestChoices(df) :
                /\ train' = Take(df, Rest(df, T))
                /\ test' = Take(df, T)
          /\ script_pc' = "split2"
          /\ UNCHANGED script_err
    /\ UNCHANGED <<step, input, df, validation, dirs, files, stdout>>
    /\ UNCHANGED <<w1_nb_vars, w2_vars>>

\* train, validation = train_test_split(train, test_size=0.2)
Split2 ==
    /\ script_pc = "split2"
    /\ \/ /\ SplitRaises(SecondSplitInput)
          /\ script_err' = Err("split2", "ValueError")
          /\ script_pc' = "raised"
          /\ UNCHANGED <<train, validation, step>>
       \/ /\ ~SplitRaises(SecondSplitInput)
          /\ \E T \in TestChoices(SecondSplitInput) :
                /\ train' = Take(SecondSplitInput, Rest(SecondSplitInput, T))
                /\ validation' = Take(SecondSplitInput, T)
          /\ script_pc' = "makedirs"
          /\ step' = 1
          /\ UNCHANGED script_err
    /\ UNCHANGED <<input, df, test, dirs, files, stdout>>
    /\ UNCHANGED <<w1_nb_vars, w2_vars>>

\* one os.makedirs of the first try block; a failure runs the except block.
\* Creating a directory that exists always fails.
MakeDirs ==
    /\ script_pc = "makedirs"
    /\ LET d == MakedirsTargets[step] IN
       \/ /\ d \notin dirs
          /\ dirs' = dirs \cup {d}
          /\ IF step < Len(MakedirsTargets)
                THEN /\ step' = step + 1
                     /\ UNCHANGED <<script_pc, stdout>>
                ELSE /\ step' = 1
                     /\ script_pc' = "to_csv"
                     /\ stdout' = Append(stdout, "Successfully created directories")
       \/ /\ \E e \in (IF d \in dirs THEN {"FileExistsError"} ELSE {"PermissionError"}) :
                stdout' = stdout \o <<e, "Could not make directories">>
          /\ step' = 1
          /\ script_pc' = AfterMakedirsFailure
          /\ UNCHANGED dirs
    /\ UNCHANGED <<script_err, input, df, train, validation, test, files>>
    /\ UNCHANGED <<w1_nb_vars, w2_vars>>

\* the to_csv statements with a try/except around each of them: a failed write
\* is reported and the next write is still attempted
WriteCsv_each_guarded ==
    /\ script_pc = "to_csv"
    /\ LET d == WriteDirs[step] IN
       /\ \/ /\ d \in dirs
             /\ files' = [files EXCEPT ![d] =
                             <<[name |-> WriteNames[step], body |-> to_csv(WriteFrame(step))]>>]
             /\ stdout' = IF step < Len(WriteDirs)
                             THEN stdout ELSE Append(stdout, "Wrote files successfully")
          \/ /\ stdout' = stdout \o <<"Failed to write the files", "OSError">>
             /\ UNCHANGED files
       /\ IF step < Len(WriteDirs)
             THEN step' = step + 1 /\ UNCHANGED script_pc
             ELSE step' = 1 /\ script_pc' = "completed"
    /\ UNCHANGED <<script_err, input, df, train, validation, test, dirs>>
    /\ UNCHANGED <<w1_nb_vars, w2_vars>>

\* one to_csv of the second try block; a failure runs the except block.
\* Writing into a directory that does not exist always fails.
WriteCsv ==
    /\ script_pc = "to_csv"
    /\ LET d == WriteDirs[step] IN
       \/ /\ d \in dirs
          /\ files' = [files EXCEPT ![d] =
                          <<[name |-> WriteNames[step], body |-> to_csv(WriteFrame(step))]>>]
          /\ IF step < Len(WriteDirs)
                THEN /\ step' = step + 1
                     /\ UNCHANGED <<script_pc, stdout, script_err>>
                ELSE /\ step' = 1
                     /\ script_pc' = "completed"
                     /\ stdout' = Append(stdout, "Wrote files successfully")
                     /\ UNCHANGED script_err
       \/ /\ stdout' = stdout \o <<"Failed to write the files", "OSError">>
          /\ step' = 1
          /\ script_pc' = AfterWriteFailure
          /\ script_err' = IF AfterWriteFailure = "raised"
                              THEN Err("to_csv", "OSError") ELSE script_err
          /\ UNCHANGED files
    /\ UNCHANGED <<input, df, train, validation, test, dirs>>
    /\ UNCHANGED <<w1_nb_vars, w2_vars>>

\* print("Completed running the processing job")
PrintCompleted ==
    /\ script_pc = "completed"
    /\ stdout' = Append(stdout, Marker)
    /\ script_pc' = "exit"
    /\ UNCHANGED <<step, script_err, input, df, train, validation, test, dirs, files>>
    /\ UNCHANGED <<w1_nb_vars, w2_vars>>

----------------------------------------------------------------------------
(* Workflow 1, the notebook cells                                          *)

OutputDirNames == {"train", "validation", "test"}
NoFiles == [d \in OutputDirNames |-> <<>>]

\* the container before the script starts: input file f, existing directories D
ContainerStart(f, D) ==
    /\ script_pc' = "read_csv"
    /\ step' = 1
    /\ script_err' = NoErr
    /\ input' = f
    /\ df' = NoFrame /\ train' = NoFrame /\ validation' = NoFrame /\ test' = NoFrame
    /\ dirs' = D
    /\ files' = NoFiles
    /\ stdout' = <<>>

\* no container: before the job starts and after it ends
ContainerGone ==
    /\ script_pc' = "idle"
    /\ step' = 1
    /\ script_err' = NoErr
    /\ input' = NoFile
    /\ df' = NoFrame /\ train' = NoFrame /\ validation' = NoFrame /\ test' = NoFrame
    /\ dirs' = {}
    /\ files' = NoFiles
    /\ stdout' = <<>>

\* s3.download_file(...); df = pd.read_csv("census-income.csv"); df.to_csv("dataset.csv")
DownloadStage ==
    /\ nb_pc = "download"
    /\ \/ /\ \E n \in 0..MaxJobRows :
                /\ census' = CensusFile(n)
                /\ dataset' = StagedFile(CensusFile(n))
          /\ nb_pc' = "run"
          /\ UNCHANGED nb_err
       \/ /\ nb_pc' = "halted"
          /\ nb_err' = Err("download", "ClientError")
          /\ UNCHANGED <<census, dataset>>
    /\ UNCHANGED <<captured, job_name, s3out, vi, printed>>
    /\ UNCHANGED <<script_vars, w2_vars>>

\* sklearn_processor.run(...): the output bindings, by container directory, in
\* the order of the outputs list
outputs_swapped == <<"train", "test", "validation">>
outputs == <<"train", "validation", "test">>

\* the job name the platform assigned, and the bucket of the session
JobName == <<"j">>
default_bucket == "default_bucket"

\* the job starts the script in a container; the input binding copies
\* dataset.csv into it unless the input is missing there
StartJob ==
    /\ nb_pc = "run"
    /\ script_pc = "idle"
    /\ \E f \in {dataset, NoFile}, D \in SUBSET OutputDirNames : ContainerStart(f, D)
    /\ UNCHANGED <<w1_nb_vars, w2_vars>>

\* what the platform uploads for the i-th output binding once the script exits
\* with status 0: the files of its directory, under output-<i>
Uploaded(i) ==
    [k \in 1..Len(files[outputs[i]]) |->
        [key  |-> [job |-> JobName, output |-> i, file |-> files[outputs[i]][k].name],
         body |-> files[outputs[i]][k].body]]

Chars == {"j", "x", " ", "\n"}
Texts == UNION {[1..k -> Chars] : k \in 0..MaxTextLen}

\* run() returns (or raises, when the script raised) and the cell's output is captured
JobEnd ==
    /\ nb_pc = "run"
    /\ \/ /\ script_pc = "exit"
          /\ s3out' = [i \in 1..Len(outputs) |-> Uploaded(i)]
          /\ \E t \in Texts : captured' = t
          /\ nb_pc' = "extract"
          /\ UNCHANGED nb_err
       \/ /\ script_pc = "raised"
          /\ nb_pc' = "halted"
          /\ nb_err' = Err("run", "UnexpectedStatusException")
          /\ UNCHANGED <<s3out, captured>>
    /\ ContainerGone
    /\ UNCHANGED <<census, dataset, job_name, vi, printed>>
    /\ UNCHANGED w2_vars

\* Python's str.split(sep) for a one-character sep
RECURSIVE Split(_, _)
Split(s, sep) ==
    IF \A i \in 1..Len(s) : s[i] # sep THEN <<s>>
    ELSE LET i == CHOOSE j \in 1..Len(s) :
                      s[j] = sep /\ \A m \in 1..(j - 1) : s[m] # sep
         IN <<SubSeq(s, 1, i - 1)>> \o Split(SubSeq(s, i + 1, Len(s)), sep)

\* the token taken from the line: .split(" ")[-1]
TokenOf(line) == Last(Split(line, " "))

\* job_name = str(output).split("\n")[1].split(" ")[-1]
ExtractJobName ==
    /\ nb_pc = "extract"
    /\ LET lines == Split(captured, "\n") IN
       \/ /\ Len(lines) < 2
          /\ nb_pc' = "halted"
          /\ nb_err' = Err("extract", "IndexError")
          /\ UNCHANGED <<job_name, vi>>
       \/ /\ Len(lines) >= 2
          /\ job_name' = TokenOf(lines[2])
          /\ nb_pc' = "verify"
          /\ vi' = 1
          /\ UNCHANGED nb_err
    /\ UNCHANGED <<census, dataset, captured, s3out, printed>>
    /\ UNCHANGED <<script_vars, w2_vars>>

\* for i in range(1, 4)
VerifyRange_short == <<1, 2>>
VerifyRange == <<1, 2, 3>>

\* s3_client.list_objects(Bucket=default_bucket, Prefix=name + "/output/output-<i>/"):
\* the objects of the bucket whose key starts with the prefix
ListObjects(name, i) ==
    IF name = JobName /\ i \in DOMAIN s3out THEN s3out[i] ELSE <<>>

\* one iteration of the loop: ...["Contents"][0]["Key"], then print; a listing
\* without objects has no "Contents" and the subscript raises KeyError
Verify ==
    /\ nb_pc = "verify"
    /\ LET listing == ListObjects(job_name, VerifyRange[vi]) IN
       \/ /\ listing = <<>>
          /\ nb_pc' = "halted"
          /\ nb_err' = Err("verify", "KeyError")
          /\ UNCHANGED <<vi, printed>>
       \/ /\ listing # <<>>
          /\ printed' = Append(printed, [bucket |-> default_bucket, key |-> listing[1].key])
          /\ IF vi < Len(VerifyRange)
                THEN vi' = vi + 1 /\ UNCHANGED nb_pc
                ELSE nb_pc' = "done" /\ UNCHANGED vi
          /\ UNCHANGED nb_err
    /\ UNCHANGED <<census, dataset, captured, job_name, s3out>>
    /\ UNCHANGED <<script_vars, w2_vars>>

----------------------------------------------------------------------------
(* Workflow 2, the notebook cells                                          *)

IrisCsvs == {"iris_train.csv", "iris_test.csv"}

\* the operands of the cleanup cell's statements, in order: four os.remove,
\* then shutil.rmtree
CleanupTargets == <<"model.tar.gz", "iris_test.csv", "iris_train.csv", "iris.data", "export">>

W2Halt(cell, e) ==
    /\ w2_pc' = "halted"
    /\ w2_err' = Err(cell, e)

\* sm_session.download_data(".", ...) fetches every object under the prefix;
\* pd.read_csv of the two files follows in the same cell
DownloadData ==
    /\ w2_pc = "download_data"
    /\ \/ /\ wd' = wd \cup prefix_objs
          /\ IF IrisCsvs \subseteq wd'
                THEN w2_pc' = "fit" /\ UNCHANGED w2_err
                ELSE W2Halt("download_data", "FileNotFoundError")
       \/ /\ W2Halt("download_data", "ClientError")
          /\ UNCHANGED wd
    /\ UNCHANGED <<prefix_objs, cleanup_i, cleanup_runs, endpoint>>
    /\ UNCHANGED <<w1_nb_vars, script_vars>>

\* classifier = iris_mlp(...); classifier.fit(...)
Fit ==
    /\ w2_pc = "fit"
    /\ w2_pc' = "export"
    /\ UNCHANGED <<w2_err, prefix_objs, wd, cleanup_i, cleanup_runs, endpoint>>
    /\ UNCHANGED <<w1_nb_vars, script_vars>>

\* classifier.save("export/Servo/1"); tarfile.open("model.tar.gz", "w:gz")
Export ==
    /\ w2_pc = "export"
    /\ wd' = wd \cup {"export", "model.tar.gz"}
    /\ w2_pc' = "upload_data"
    /\ UNCHANGED <<w2_err, prefix_objs, cleanup_i, cleanup_runs, endpoint>>
    /\ UNCHANGED <<w1_nb_vars, script_vars>>

\* sm_session.upload_data("model.tar.gz", ...); TensorFlowModel(...)
UploadData ==
    /\ w2_pc = "upload_data"
    /\ \/ w2_pc' = "deploy" /\ UNCHANGED w2_err
       \/ W2Halt("upload_data", "ClientError")
    /\ UNCHANGED <<prefix_objs, wd, cleanup_i, cleanup_runs, endpoint>>
    /\ UNCHANGED <<w1_nb_vars, script_vars>>

\* predictor = sagemaker_model.deploy(...)
Deploy ==
    /\ w2_pc = "deploy"
    /\ \/ /\ endpoint' = "InService"
          /\ w2_pc' = "predict"
          /\ UNCHANGED w2_err
       \/ /\ W2Halt("deploy", "UnexpectedStatusException")
          /\ UNCHANGED endpoint
    /\ UNCHANGED <<prefix_objs, wd, cleanup_i, cleanup_runs>>
    /\ UNCHANGED <<w1_nb_vars, script_vars>>

\* predictor.predict(sample), with the endpoint torn down when the call fails
Predict_teardown ==
    /\ w2_pc = "predict"
    /\ \/ /\ w2_pc' = "cleanup"
          /\ cleanup_i' = 1
          /\ cleanup_runs' = cleanup_runs + 1
          /\ UNCHANGED <<w2_err, endpoint>>
       \/ /\ W2Halt("predict", "ModelError")
          /\ endpoint' = "deleted"
          /\ UNCHANGED <<cleanup_i, cleanup_runs>>
    /\ UNCHANGED <<prefix_objs, wd>>
    /\ UNCHANGED <<w1_nb_vars, script_vars>>

\* predictor.predict(sample)
Predict ==
    /\ w2_pc = "predict"
    /\ \/ /\ w2_pc' = "cleanup"
          /\ cleanup_i' = 1
          /\ cleanup_runs' = cleanup_runs + 1
          /\ UNCHANGED w2_err
       \/ /\ W2Halt("predict", "ModelError")
          /\ UNCHANGED <<cleanup_i, cleanup_runs>>
    /\ UNCHANGED <<prefix_objs, wd, endpoint>>
    /\ UNCHANGED <<w1_nb_vars, script_vars>>

\* one statement of the cleanup cell: os.remove / shutil.rmtree raise
\* FileNotFoundError when the target is absent
Cleanup ==
    /\ w2_pc = "cleanup"
    /\ LET t == CleanupTargets[cleanup_i] IN
       \/ /\ t \in wd
          /\ wd' = wd \ {t}
          /\ IF cleanup_i < Len(CleanupTargets)
                THEN cleanup_i' = cleanup_i + 1 /\ UNCHANGED w2_pc
                ELSE w2_pc' = "delete_endpoint" /\ UNCHANGED cleanup_i
          /\ UNCHANGED w2_err
       \/ /\ t \notin wd
          /\ W2Halt("cleanup", "FileNotFoundError")
          /\ UNCHANGED <<wd, cleanup_i>>
    /\ UNCHANGED <<prefix_objs, cleanup_runs, endpoint>>
    /\ UNCHANGED <<w1_nb_vars, script_vars>>

\* the user runs the cleanup cell again right after it completed
RerunCleanup ==
    /\ w2_pc = "delete_endpoint"
    /\ cleanup_runs < MaxCleanupRuns
    /\ w2_pc' = "cleanup"
    /\ cleanup_i' = 1
    /\ cleanup_runs' = cleanup_runs + 1
    /\ UNCHANGED <<w2_err, prefix_objs, wd, endpoint>>
    /\ UNCHANGED <<w1_nb_vars, script_vars>>

\* predictor.delete_endpoint()
DeleteEndpoint ==
    /\ w2_pc = "delete_endpoint"
    /\ endpoint' = "deleted"
    /\ w2_pc' = "done"
    /\ UNCHANGED <<w2_err, prefix_objs, wd, cleanup_i, cleanup_runs>>
    /\ UNCHANGED <<w1_nb_vars, script_vars>>

----------------------------------------------------------------------------
(* Specifications *)

\* a notebook that is not open
W1Closed ==
    /\ nb_pc = "closed" /\ nb_err = NoErr
    /\ census = NoFile /\ dataset = NoFile
    /\ captured = <<>> /\ job_name = Unset
    /\ s3out = <<>> /\ vi = 1 /\ printed = <<>>

NoContainer ==
    /\ script_pc = "idle" /\ step = 1 /\ script_err = NoErr
    /\ input = NoFile
    /\ df = NoFrame /\ train = NoFrame /\ validation = NoFrame /\ test = NoFrame
    /\ dirs = {} /\ files = NoFiles /\ stdout = <<>>

W2Closed ==
    /\ w2_pc = "closed" /\ w2_err = NoErr
    /\ prefix_objs = {} /\ wd = {}
    /\ cleanup_i = 1 /\ cleanup_runs = 0 /\ endpoint = "none"

\* workflow 1 from its first cell
InitW1 ==
    /\ nb_pc = "download" /\ nb_err = NoErr
    /\ census = NoFile /\ dataset = NoFile
    /\ captured = <<>> /\ job_name = Unset
    /\ s3out = <<>> /\ vi = 1 /\ printed = <<>>
    /\ NoContainer
    /\ W2Closed

NextW1 ==
    \/ DownloadStage \/ StartJob
    \/ ReadCsv \/ Split1 \/ Split2 \/ MakeDirs \/ WriteCsv \/ PrintCompleted
    \/ JobEnd \/ ExtractJobName \/ Verify

\* the script at its first statement in a fresh container, for inputs of up
\* to MaxRows rows
InitSplit ==
    /\ nb_pc = "run" /\ nb_err = NoErr
    /\ \E n \in 0..MaxRows :
          /\ census = CensusFile(n)
          /\ dataset = StagedFile(CensusFile(n))
    /\ captured = <<>> /\ job_name = Unset
    /\ s3out = <<>> /\ vi = 1 /\ printed = <<>>
    /\ script_pc = "read_csv" /\ step = 1 /\ script_err = NoErr
    /\ input \in {dataset, NoFile}
    /\ df = NoFrame /\ train = NoFrame /\ validation = NoFrame /\ test = NoFrame
    /\ dirs = {} /\ files = NoFiles /\ stdout = <<>>
    /\ W2Closed

NextSplit == ReadCsv \/ Split1 \/ Split2

SpecSplit == InitSplit /\ [][NextSplit]_vars

\* workflow 2 from its data cell; the working directory may hold leftovers
\* of an earlier run
InitW2 ==
    /\ W1Closed
    /\ NoContainer
    /\ w2_pc = "download_data" /\ w2_err = NoErr
    /\ prefix_objs \in SUBSET (IrisCsvs \cup {"iris.data"})
    /\ wd \in SUBSET {"iris.data", "export", "model.tar.gz"}
    /\ cleanup_i = 1 /\ cleanup_runs = 0 /\ endpoint = "none"

NextW2 ==
    \/ DownloadData \/ Fit \/ Export \/ UploadData \/ Deploy \/ Predict
    \/ Cleanup \/ RerunCleanup \/ DeleteEndpoint

\* either notebook is opened and run
Init == InitW1 \/ InitW2
Next == NextW1 \/ NextW2
Spec == Init /\ [][Next]_vars

----------------------------------------------------------------------------
(* Properties of the partitioning script *)

Abs(x) == IF x < 0 THEN -x ELSE x

\* both train_test_split calls have returned
SplitsDone == script_pc \in {"makedirs", "to_csv", "completed", "exit"}

\* the number of data rows of the script's input
InputRows == Len(input.rows)

\* C1: once both splits have returned, the index sets of train, validation and
\* test are pairwise disjoint, no index occurs twice, and their union is the
\* set of all row indices of the input, whichever rows the splits chose.
C1_PartitionsDisjointAndCover ==
    SplitsDone =>
        /\ IndexSet(train) \cap IndexSet(validation) = {}
        /\ IndexSet(train) \cap IndexSet(test) = {}
        /\ IndexSet(validation) \cap IndexSet(test) = {}
        /\ IndexSet(train) \cup IndexSet(validation) \cup IndexSet(test)
              = 0..(InputRows - 1)
        /\ Len(train.index) + Len(validation.index) + Len(test.index) = InputRows
        /\ Cardinality(IndexSet(train)) = Len(train.index)
        /\ Cardinality(IndexSet(validation)) = Len(validation.index)
        /\ Cardinality(IndexSet(test)) = Len(test.index)

C1_Witness ==
    /\ SplitsDone
    /\ InputRows >= 10
    /\ 0 \in IndexSet(validation)
    /\ 1 \in IndexSet(test)
    /\ 2 \in IndexSet(train)

\* C2 as stated: for N >= 10 every part is within one row of its fraction
\* (sizes scaled by 100: 0.2 N, 0.16 N, 0.64 N).
C2_SizesWithinOneRow ==
    (SplitsDone /\ InputRows >= 10) =>
        /\ Abs(100 * Len(test.index) - 20 * InputRows) < 100
        /\ Abs(100 * Len(validation.index) - 16 * InputRows) < 100
        /\ Abs(100 * Len(train.index) - 64 * InputRows) < 100

\* C2 amended: for N >= 10, test is within one row of 0.2 N, validation within
\* one row of 0.16 N, and train within two rows of 0.64 N.
C2_SizesWithinTolerance ==
    (SplitsDone /\ InputRows >= 10) =>
        /\ Abs(100 * Len(test.index) - 20 * InputRows) < 100
        /\ Abs(100 * Len(validation.index) - 16 * InputRows) < 100
        /\ Abs(100 * Len(train.index) - 64 * InputRows) < 200

\* N = 11: test 3, validation 2, train 6, and 0.64 N = 7.04
C2_Witness ==
    /\ SplitsDone
    /\ InputRows = 11
    /\ Len(test.index) = 3 /\ Len(validation.index) = 2 /\ Len(train.index) = 6

\* C3: the script never ends on an uncaught exception, and when it has ended
\* the completion marker is the last line it printed.
C3_AlwaysReachesMarker ==
    /\ script_pc # "raised"
    /\ script_pc = "exit" => (stdout # <<>> /\ Last(stdout) = Marker)

Printed(line) == \E i \in 1..Len(stdout) : stdout[i] = line

\* C4: no exception of the two try blocks leaves the script; a failed directory
\* creation prints the error and "Could not make directories" and the script
\* goes on to the writes; a failed write prints "Failed to write the files"
\* and the error and the script goes on to the completion marker; the script
\* ends with the marker as its last line, also when no file was written.
C4_FailuresSwallowed ==
    /\ script_pc = "raised" => script_err.at \in {"read_csv", "split1", "split2"}
    /\ script_pc \in {"to_csv", "completed", "exit"} =>
          /\ Printed("Successfully created directories")
                # Printed("Could not make directories")
          /\ Printed("Successfully created directories") => OutputDirNames \subseteq dirs
          /\ \A i \in 1..Len(stdout) :
                stdout[i] = "Could not make directories" =>
                    i > 1 /\ stdout[i - 1] \in {"FileExistsError", "PermissionError"}
    /\ script_pc \in {"completed", "exit"} =>
          /\ Printed("Wrote files successfully") # Printed("Failed to write the files")
          /\ Printed("Wrote files successfully") =>
                \A d \in OutputDirNames : files[d] # <<>>
          /\ \A i \in 1..Len(stdout) :
                stdout[i] = "Failed to write the files" =>
                    i < Len(stdout) /\ stdout[i + 1] = "OSError"
    /\ script_pc = "exit" => Last(stdout) = Marker
    /\ Printed("Could not make directories") =>
          script_pc \in {"to_csv", "completed", "exit"}
    /\ Printed("Failed to write the files") => script_pc \in {"completed", "exit"}

C4_Witness ==
    /\ script_pc = "exit"
    /\ files = NoFiles
    /\ Printed("Could not make directories")
    /\ Printed("Failed to write the files")
    /\ Last(stdout) = Marker

----------------------------------------------------------------------------
(* Properties of workflow 2's local cleanup *)

\* the cleanup cell has been run and has ended, normally or on an exception
CleanupEnded ==
    \/ w2_pc \in {"delete_endpoint", "done"}
    \/ w2_pc = "halted" /\ w2_err.at = "cleanup"

\* C5: after the cleanup cell of a run whose download fetched only
\* iris_train.csv and iris_test.csv, the working directory holds none of
\* model.tar.gz, iris_test.csv, iris_train.csv, export.
C5_CleanupLeavesNothing ==
    (CleanupEnded /\ prefix_objs = IrisCsvs) =>
        wd \cap {"model.tar.gz", "iris_test.csv", "iris_train.csv", "export"} = {}

CleanupTargetSet == {CleanupTargets[i] : i \in 1..Len(CleanupTargets)}

\* C6: an absent target does not stop the cleanup cell: the cell never ends on
\* an unhandled error (first or second run), and when it has ended every
\* target that existed has been removed.
C6_CleanupTolerant ==
    /\ ~(w2_pc = "halted" /\ w2_err.at = "cleanup")
    /\ CleanupEnded => wd \cap CleanupTargetSet = {}

----------------------------------------------------------------------------
(* Properties of workflow 1's notebook cells *)

\* the extraction cell has been run
ExtractionRan ==
    \/ nb_pc \in {"verify", "done"}
    \/ nb_pc = "halted" /\ nb_err.at \in {"extract", "verify"}

\* the number of lines of a text: one per line terminator, and one more for
\* an unterminated last line
LineCount(text) ==
    Cardinality({i \in 1..Len(text) : text[i] = "\n"})
        + (IF text # <<>> /\ Last(text) # "\n" THEN 1 ELSE 0)

\* C7: extraction on a captured output of fewer than 2 lines fails and leaves
\* no job name, so verification never starts from it.
C7_ShortOutputFails ==
    (ExtractionRan /\ LineCount(captured) < 2) =>
        /\ nb_pc = "halted" /\ nb_err.at = "extract"
        /\ job_name = Unset

\* the verification cell has ended, normally or on an exception
VerifyEnded ==
    \/ nb_pc = "done"
    \/ nb_pc = "halted" /\ nb_err.at = "verify"

\* C8: the loop visits 1, 2, 3 in order and prints one URI per index visited
\* without failure; it ends normally exactly when every prefix
\* <job_name>/output/output-<i>/ holds an object, and then three URIs are
\* printed and every partition was uploaded; an empty listing at index i ends
\* the cell on an exception with the URIs of 1..i-1 printed and no other.
C8_VerifyDetectsMissing ==
    /\ nb_pc = "verify" =>
          /\ vi \in 1..3
          /\ Len(printed) = vi - 1
    /\ (nb_pc = "verify" \/ VerifyEnded) =>
          \A p \in 1..Len(printed) :
              /\ printed[p].key.output = p
              /\ printed[p].key.job = job_name
              /\ ListObjects(job_name, p) # <<>>
    /\ nb_pc = "done" =>
          /\ Len(printed) = 3
          /\ \A i \in 1..3 : ListObjects(job_name, i) # <<>>
          /\ \A i \in 1..3 : s3out[i] # <<>>
    /\ (nb_pc = "halted" /\ nb_err.at = "verify") =>
          /\ vi \in 1..3
          /\ ListObjects(job_name, vi) = <<>>
          /\ Len(printed) = vi - 1
    /\ VerifyEnded =>
          (nb_pc = "done" <=> \A i \in 1..3 : ListObjects(job_name, i) # <<>>)

\* the job name was extracted correctly, train.csv was uploaded and
\* validation.csv was not: the loop stops at index 2
C8_Witness ==
    /\ nb_pc = "halted" /\ nb_err.at = "verify"
    /\ job_name = JobName
    /\ s3out[1] # <<>> /\ s3out[2] = <<>>
    /\ vi = 2 /\ Len(printed) = 1

\* C9: dataset.csv, once staged, has the header and the rows of the
\* downloaded census-income.csv.
C9_StagedCopyUnmodified ==
    dataset.exists =>
        /\ census.exists
        /\ dataset.header = census.header
        /\ dataset.rows = census.rows

\* the listing holds only the file `name`, with the rows of `frame`
HoldsOnly(listing, i, name, frame) ==
    \A k \in 1..Len(listing) :
        /\ listing[k].key = [job |-> JobName, output |-> i, file |-> name]
        /\ listing[k].body = to_csv(frame)

\* C10: when the job ends, output-1 receives train.csv with the rows of train
\* (if the script wrote it), output-2 validation.csv with the rows of
\* validation, output-3 test.csv with the rows of test, and there are exactly
\* three output prefixes; the p-th URI the verification loop prints is the
\* one of the p-th of these files.
C10_OutputOrder ==
    /\ [][(nb_pc = "run" /\ nb_pc' = "extract") =>
            /\ DOMAIN s3out' = 1..3
            /\ HoldsOnly(s3out'[1], 1, "train.csv", train)
            /\ HoldsOnly(s3out'[2], 2, "validation.csv", validation)
            /\ HoldsOnly(s3out'[3], 3, "test.csv", test)
            /\ (files["train"] # <<>>) <=> (s3out'[1] # <<>>)
            /\ (files["validation"] # <<>>) <=> (s3out'[2] # <<>>)
            /\ (files["test"] # <<>>) <=> (s3out'[3] # <<>>)]_vars
    /\ [](\A p \in 1..Len(printed) :
            printed[p].key.file = <<"train.csv", "validation.csv", "test.csv">>[p])

C10_Witness ==
    /\ nb_pc = "done"
    /\ Len(printed) = 3
    /\ printed[1].key.file = "train.csv"
    /\ printed[2].key.file = "validation.csv"
    /\ printed[3].key.file = "test.csv"
    /\ Len(s3out[1][1].body.rows) = 2

----------------------------------------------------------------------------
(* Properties of workflow 2's endpoint *)

\* C11: from a successful deploy on the endpoint is in service until the
\* teardown cell runs: only the step from the teardown cell to the end of the
\* notebook takes it out of service, that step is taken only after a cleanup
\* cell that ran all its statements without error, and a run halted at the
\* validation cell or at the cleanup cell ends with the endpoint in service.
C11_EndpointUntilTeardown ==
    /\ [][(endpoint = "InService" /\ endpoint' # "InService") =>
            /\ w2_pc = "delete_endpoint" /\ w2_pc' = "done"
            /\ endpoint' = "deleted"
            /\ w2_err = NoErr
            /\ cleanup_runs >= 1
            /\ wd \cap CleanupTargetSet = {}]_vars
    /\ [][(endpoint # "InService" /\ endpoint' = "InService") =>
            (w2_pc = "deploy" /\ w2_pc' = "predict")]_vars
    /\ [](w2_pc \in {"predict", "cleanup", "delete_endpoint"} => endpoint = "InService")
    /\ []((w2_pc = "halted" /\ w2_err.at \in {"predict", "cleanup"}) =>
            endpoint = "InService")
    /\ [](endpoint = "deleted" => (w2_pc = "done" /\ w2_err = NoErr))

\* a run halted in the cleanup cell, the endpoint still in service
C11_Witness ==
    /\ w2_pc = "halted"
    /\ w2_err = Err("cleanup", "FileNotFoundError")
    /\ endpoint = "InService"

----------------------------------------------------------------------------
(* Properties of the script's two guarded blocks *)

\* C12: the files written are always train.csv, then validation.csv, then
\* test.csv, each in its own directory, up to the first failing write: a
\* failed makedirs ends the first block and a failed to_csv ends the second,
\* nothing is created or written after its block, and test.csv exists only
\* if train.csv and validation.csv do.
C12_WrittenFilesArePrefix ==
    /\ [](/\ files["test"] # <<>> => files["validation"] # <<>>
          /\ files["validation"] # <<>> => files["train"] # <<>>
          /\ \A k \in 1..3 : \A j \in 1..Len(files[WriteDirs[k]]) :
                files[WriteDirs[k]][j].name
                    = <<"train.csv", "validation.csv", "test.csv">>[k]
          /\ script_pc = "to_csv" => \A k \in 1..3 :
                (files[<<"train", "validation", "test">>[k]] # <<>>) <=> (k < step))
    /\ [][(script_pc = "makedirs" /\ dirs' = dirs) => script_pc' = "to_csv"]_vars
    /\ [][(script_pc = "makedirs" /\ dirs' # dirs) =>
            dirs' = dirs \cup {<<"train", "validation", "test">>[step]}]_vars
    /\ [][(script_pc \in {"to_csv", "completed"}) => dirs' = dirs]_vars
    /\ [][(script_pc = "to_csv" /\ files' = files) => script_pc' = "completed"]_vars
    /\ [][(script_pc = "completed") => files' = files]_vars

\* validation.csv failed although its directory exists: train.csv alone is
\* written and test.csv was never attempted
C12_Witness ==
    /\ script_pc = "exit"
    /\ dirs = OutputDirNames
    /\ files["train"] # <<>>
    /\ files["validation"] = <<>>
    /\ files["test"] = <<>>

====
